---- MODULE Spec2Model ----
(***************************************************************************)
(* Model of the Perplexity MCP server: the filesystem-backed result cache  *)
(* (package cache), the typed search orchestrator (package search) and the *)
(* tool calls that drive them.  Each tool call is executed by one of       *)
(* NumProcs host goroutines; a call's filesystem operations are separate   *)
(* steps, so calls interleave at the granularity of one system call.       *)
(*                                                                         *)
(* Text is a sequence of chunks (strings); concatenation is \o.            *)
(* An identifier is a sequence of one-character strings.                   *)
(* An error is a sequence of message chunks; the nil error is <<>>.        *)
(***************************************************************************)
EXTENDS Integers, Sequences, FiniteSets, TLC

VARIABLES
    config,       \* the Config the server was started with
    rootExists,   \* does the root directory exist on disk
    dirs,         \* child directories of the root: name -> [meta, result]
    pc,           \* per goroutine: position inside the tool call it runs
    op,           \* per goroutine: the operation being run
    arg,          \* per goroutine: the arguments of the running operation
    loc,          \* per goroutine: locals of SaveResult (uniqueID, content ...)
    ret,          \* per goroutine: the value returned by the finished call
    mkdirs,       \* history: per directory name, number of saves that created/targeted it
    returned,     \* history: the saves that returned an identifier
    wrote,        \* history: per goroutine, did the running call change the cache
    gen,          \* the result of the last direct GenerateUniqueID call
    log,          \* history: per goroutine, the events of the running call in order
    call,         \* the last direct call of a function: its name, input and result
    faults        \* the number of I/O failures the disk can still produce

vars == <<config, rootExists, dirs, pc, op, arg, loc, ret, mkdirs, returned, wrote, gen, log, call,
          faults>>

----------------------------------------------------------------------------
\* Bounds of the model

\* number of host goroutines that run tool calls concurrently
NumProcs == 2

\* number of distinct streams the random source can deliver to generateRandomID
NumStreams == 2

\* wall-clock readings are 1..MaxTime
MaxTime == 2

\* number of filesystem calls that fail in one run
MaxFaults == 1

Procs == 1..NumProcs
Times == 1..MaxTime

----------------------------------------------------------------------------
\* Program constants (package cache)

metadataFile == "metadata.yaml"
resultFile == "result.md"
idLength == 10
idCharset == <<"A","B","C","D","E","F","G","H","I","J","K","L","M",
               "N","O","P","Q","R","S","T","U","V","W","X","Y","Z",
               "0","1","2","3","4","5","6","7","8","9">>
maxAttempts == 100

ModelSonar == "sonar"
ModelSonarPro == "sonar-pro"

\* the nil error, and the absent file
NoErr == <<>>
NoFile == [exists |-> FALSE]

Range(s) == {s[i] : i \in 1..Len(s)}

\* len(string): the number of bytes of the UTF-8 encoding
Utf8Len(c) == IF c \in Range(idCharset) \cup {"a", "-", "/", "."} THEN 1 ELSE 2

RECURSIVE ByteLen(_)
ByteLen(s) == IF s = <<>> THEN 0 ELSE Utf8Len(Head(s)) + ByteLen(Tail(s))

----------------------------------------------------------------------------
\* Files.  A file holds a sequence: the lines of a YAML document or the
\* chunks of a text.

File(data) == [exists |-> TRUE, data |-> data]

\* the line a torn write leaves at the end of a YAML document
TornLine == <<"torn">>

\* QueryMetadata and its YAML encoding: one line per field, in field order;
\* the parameters line is omitted when the map is empty (omitempty)
QueryMetadata(query, searchType, timestamp, model, parameters) ==
    [Query |-> query, SearchType |-> searchType, Timestamp |-> timestamp,
     Model |-> model, Parameters |-> parameters]

yamlMarshal(m) ==
    << <<"query", m.Query>>, <<"search_type", m.SearchType>>,
       <<"timestamp", m.Timestamp>>, <<"model", m.Model>> >>
    \o (IF m.Parameters = <<>> THEN <<>> ELSE << <<"parameters", m.Parameters>> >>)

yamlField(doc, key, zero) ==
    IF \E i \in 1..Len(doc) : doc[i][1] = key
    THEN LET i == CHOOSE j \in 1..Len(doc) : doc[j][1] = key IN doc[i][2]
    ELSE zero

\* yaml.Unmarshal into a zero QueryMetadata: a missing field keeps its zero
\* value, a torn line is a parse error
yamlUnmarshal(doc) ==
    IF \E i \in 1..Len(doc) : doc[i] = TornLine
    THEN [err |-> <<"yaml: unmarshal error">>, metadata |-> QueryMetadata("", "", 0, "", <<>>)]
    ELSE [err |-> NoErr,
          metadata |-> QueryMetadata(yamlField(doc, "query", ""),
                                     yamlField(doc, "search_type", ""),
                                     yamlField(doc, "timestamp", 0),
                                     yamlField(doc, "model", ""),
                                     yamlField(doc, "parameters", <<>>))]

\* what a failed ioutil.WriteFile can leave behind: the file as it was (the
\* open failed), or a truncated file holding a strict prefix of the data
\* (the model cuts before the first element: the file was created or truncated
\* and no data arrived)
Truncations(data) == {SubSeq(data, 1, k) : k \in {0} \cap (0..Len(data) - 1)}

FailedWrite(old, data) == {old} \cup {File(t) : t \in Truncations(data)}

\* a YAML document can also be cut in the middle of a line
FailedWriteYaml(old, doc) ==
    FailedWrite(old, doc) \cup {File(Append(t, TornLine)) : t \in Truncations(doc)}

----------------------------------------------------------------------------
\* package cache: identifiers

\* the streams of numbers crypto/rand can deliver to one generateRandomID call
RandStreams == {[i \in 1..idLength |-> (k * i) % Len(idCharset)] : k \in 0..NumStreams - 1}

\* generateRandomID that draws from lower-case letters
generateRandomIDLower(stream) == [i \in 1..idLength |-> "a"]

generateRandomID(stream) == [i \in 1..idLength |-> idCharset[stream[i] + 1]]

RandomIDs == {generateRandomID(s) : s \in RandStreams}

\* idExists that reports every candidate as unused
idExistsNever(root, exists, d, id) == FALSE

\* os.Stat(rootFolder/id) succeeds (stat itself is assumed not to fail on an
\* existing path)
idExists(root, exists, d, id) ==
    IF root = "" THEN FALSE ELSE exists /\ id \in DOMAIN d

\* GenerateUniqueID whose loop runs once more (attempt <= maxAttempts)
GenerateUniqueIDOneMore(root, exists, d) ==
    LET stale == {id \in RandomIDs : idExists(root, exists, d, id)}
        Rejected(attempt) ==
            {T \in SUBSET stale : IF attempt = 0 THEN T = {}
                                  ELSE T # {} /\ Cardinality(T) <= attempt}
    IN UNION {{[id |-> id, err |-> NoErr, draws |-> attempt + 1, rejected |-> T] :
                    id \in RandomIDs \ stale, T \in Rejected(attempt)} :
                attempt \in 0..maxAttempts}
       \cup {[id |-> <<>>,
              err |-> <<"failed to generate unique ID after ", ToString(maxAttempts), " attempts">>,
              draws |-> maxAttempts + 1, rejected |-> T] : T \in Rejected(maxAttempts + 1)}

\* GenerateUniqueID: the set of its possible results, each with the number of
\* candidates drawn and the set of candidates it rejected.  Iteration `attempt`
\* of the for loop is reached iff every earlier candidate named an existing
\* directory; it returns its candidate when that one does not exist.  The loop
\* falls through after maxAttempts iterations.  The loop is evaluated in one
\* step: directories are only ever added, so a candidate found to exist stays
\* rejected.
GenerateUniqueID(root, exists, d) ==
    LET stale == {id \in RandomIDs : idExists(root, exists, d, id)}
        Rejected(attempt) ==
            {T \in SUBSET stale : IF attempt = 0 THEN T = {}
                                  ELSE T # {} /\ Cardinality(T) <= attempt}
    IN UNION {{[id |-> id, err |-> NoErr, draws |-> attempt + 1, rejected |-> T] :
                    id \in RandomIDs \ stale, T \in Rejected(attempt)} :
                attempt \in 0..maxAttempts - 1}
       \cup {[id |-> <<>>,
              err |-> <<"failed to generate unique ID after ", ToString(maxAttempts), " attempts">>,
              draws |-> maxAttempts, rejected |-> T] : T \in Rejected(maxAttempts)}

\* isValidID that accepts every character
isValidIDAny(id) == TRUE

isValidID(id) == \A i \in 1..Len(id) : id[i] \in Range(idCharset)

\* caching taken as enabled whatever the root folder
IsCachingEnabledAlways(root) == TRUE

IsCachingEnabled(root) == root # ""

RECURSIVE String(_)
String(id) == IF id = <<>> THEN "" ELSE Head(id) \o String(Tail(id))

----------------------------------------------------------------------------
\* package cache: reading

QueryListItem(query, uniqueID, dateTime, searchType) ==
    [Query |-> query, UniqueID |-> uniqueID, DateTime |-> dateTime, SearchType |-> searchType]

\* a child of the root is a directory (it has the two file slots) or a file
IsDir(child) == "meta" \in DOMAIN child

\* a file that exists and cannot be read (permissions, or a directory by
\* that name): it has no data to deliver
Unreadable == [exists |-> TRUE]

\* ioutil.ReadFile succeeds
Readable(f) == f.exists /\ "data" \in DOMAIN f

\* the items collected without the check of the parse error
ListItemsUnparsed(d) ==
    {QueryListItem(yamlUnmarshal(d[id].meta.data).metadata.Query, id,
                   yamlUnmarshal(d[id].meta.data).metadata.Timestamp,
                   yamlUnmarshal(d[id].meta.data).metadata.SearchType) :
        id \in {n \in DOMAIN d : IsDir(d[n]) /\ Readable(d[n].meta)}}

\* the items ListPreviousQueries collects: one per child directory whose
\* metadata file can be read and parsed
ListItems(d) ==
    {QueryListItem(yamlUnmarshal(d[id].meta.data).metadata.Query, id,
                   yamlUnmarshal(d[id].meta.data).metadata.Timestamp,
                   yamlUnmarshal(d[id].meta.data).metadata.SearchType) :
        id \in {n \in DOMAIN d : /\ IsDir(d[n])
                                  /\ Readable(d[n].meta)
                                  /\ yamlUnmarshal(d[n].meta.data).err = NoErr}}

\* the comparison turned around
Before(t, u) == t < u

\* time.Time.After
After(t, u) == t > u

\* the orders sort.Slice may leave the items in: no item is After an item
\* placed before it (the order of equal timestamps is unspecified)
SortedByRecency(items) ==
    {q \in [1..Cardinality(items) -> items] :
        /\ \A i, j \in 1..Cardinality(items) : i # j => q[i] # q[j]
        /\ \A i, j \in 1..Cardinality(items) : i < j => ~After(q[j].DateTime, q[i].DateTime)}

\* the root folder on disk: does it exist, can its entries be read
\* (ioutil.ReadDir succeeds), and its children by name
Disk(exists, readable, children) ==
    [exists |-> exists, readable |-> readable, children |-> children]

\* ListPreviousQueries that reports a missing root folder as an error
ListPreviousQueriesDiskStrict(root, disk) ==
    IF root = "" THEN {[items |-> <<>>, err |-> NoErr]}
    ELSE IF ~disk.exists \/ ~disk.readable
    THEN {[items |-> <<>>, err |-> <<"failed to read results directory: ", "readdir">>]}
    ELSE {[items |-> q, err |-> NoErr] : q \in SortedByRecency(ListItems(disk.children))}

\* the possible results of ListPreviousQueries on a disk
ListPreviousQueriesDisk(root, disk) ==
    IF root = "" THEN {[items |-> <<>>, err |-> NoErr]}
    ELSE IF ~disk.exists THEN {[items |-> <<>>, err |-> NoErr]}
    ELSE IF ~disk.readable
    THEN {[items |-> <<>>, err |-> <<"failed to read results directory: ", "readdir">>]}
    ELSE {[items |-> q, err |-> NoErr] : q \in SortedByRecency(ListItems(disk.children))}

\* the filesystem calls ListPreviousQueries makes, in order
ListPreviousQueriesFS(root, disk) ==
    IF root = "" THEN <<>>
    ELSE IF ~disk.exists THEN <<"Stat">>
    ELSE IF ~disk.readable THEN <<"Stat", "ReadDir">>
    ELSE <<"Stat", "ReadDir">>
         \o [i \in 1..Cardinality({n \in DOMAIN disk.children : IsDir(disk.children[n])})
                |-> "ReadFile"]

\* the possible results of ListPreviousQueries when the root, if it exists,
\* can be read
ListPreviousQueries(root, exists, d) == ListPreviousQueriesDisk(root, Disk(exists, TRUE, d))

ErrInvalidID == <<"invalid unique ID format: must be ", ToString(idLength), " alphanumeric characters">>
ErrNotFound(uniqueID) == <<"result with ID '", String(uniqueID), "' not found">>

\* GetPreviousResult that reads the metadata file instead of the result file
GetPreviousResultMetadata(root, exists, d, uniqueID) ==
    IF root = ""
    THEN [out |-> <<>>, err |-> <<"results root folder not configured">>, touched |-> FALSE]
    ELSE IF ByteLen(uniqueID) # idLength \/ ~isValidID(uniqueID)
    THEN [out |-> <<>>, err |-> ErrInvalidID, touched |-> FALSE]
    ELSE IF ~(exists /\ uniqueID \in DOMAIN d /\ d[uniqueID].meta.exists)
    THEN [out |-> <<>>, err |-> ErrNotFound(uniqueID), touched |-> TRUE]
    ELSE [out |-> d[uniqueID].meta.data, err |-> NoErr, touched |-> TRUE]

\* GetPreviousResult; touched tells whether the filesystem was accessed
GetPreviousResult(root, exists, d, uniqueID) ==
    IF root = ""
    THEN [out |-> <<>>, err |-> <<"results root folder not configured">>, touched |-> FALSE]
    ELSE IF ByteLen(uniqueID) # idLength \/ ~isValidID(uniqueID)
    THEN [out |-> <<>>, err |-> ErrInvalidID, touched |-> FALSE]
    ELSE IF ~(exists /\ uniqueID \in DOMAIN d /\ d[uniqueID].result.exists)
    THEN [out |-> <<>>, err |-> ErrNotFound(uniqueID), touched |-> TRUE]
    ELSE [out |-> d[uniqueID].result.data, err |-> NoErr, touched |-> TRUE]

----------------------------------------------------------------------------
\* package search: the remote call

\* contains / containsSubstring on a message, a sequence of words; start
\* counts from 0 as in the source
RECURSIVE containsSubstring(_, _, _)
containsSubstring(s, substr, start) ==
    IF start + Len(substr) > Len(s) THEN FALSE
    ELSE IF \E i \in 0..Len(substr) - 1 : s[start + i + 1] # substr[i + 1]
    THEN IF start + 1 < Len(s) THEN containsSubstring(s, substr, start + 1) ELSE FALSE
    ELSE TRUE

contains(s, substr) == Len(s) >= Len(substr) /\ containsSubstring(s, substr, 0)

handleAPIError(statusCode, errResp) ==
    CASE statusCode = 401 ->
            <<"authentication failed: invalid API key. Please check your PERPLEXITY_API_KEY environment variable">>
      [] statusCode = 429 ->
            <<"rate limit exceeded: ">> \o errResp.Message \o
            <<". Try reducing request frequency or using 'sonar' model for lower rate limits">>
      [] statusCode = 400 ->
            IF contains(errResp.Message, <<"Invalid", "model">>)
            THEN <<"bad request: ">> \o errResp.Message \o
                 <<". Use 'sonar' for quick searches or 'sonar-pro' for comprehensive searches">>
            ELSE <<"bad request: ">> \o errResp.Message \o
                 <<". Check your query parameters and try simplifying the request">>
      [] statusCode = 500 ->
            <<"server error: ">> \o errResp.Message \o
            <<". The Perplexity API is experiencing issues, please try again later">>
      [] OTHER -> <<"API error (", errResp.Type, "): ">> \o errResp.Message

\* what the transport can deliver for one POST: an error of http.Client.Do
\* (timeout, cancellation of the caller's context), or a status and a body
PerplexityResponse(choices, citations, searchResults, relatedQuestions) ==
    [Choices |-> choices, Citations |-> citations,
     SearchResults |-> searchResults, RelatedQuestions |-> relatedQuestions]

Transports ==
    { [doErr |-> <<"context canceled">>, status |-> 0, json |-> FALSE, body |-> <<>>],
      [doErr |-> NoErr, status |-> 429, json |-> TRUE,
       body |-> [Type |-> "rate_limit_error", Message |-> <<"slow", "down">>]],
      [doErr |-> NoErr, status |-> 502, json |-> FALSE, body |-> <<"Bad Gateway">>],
      [doErr |-> NoErr, status |-> 200, json |-> TRUE,
       body |-> PerplexityResponse(<<"Paris">>, <<"https://a.example">>, <<>>, <<>>)],
      [doErr |-> NoErr, status |-> 200, json |-> TRUE,
       body |-> PerplexityResponse(<<"Lyon">>, <<>>, <<>>, <<>>)] }

\* callAPI: the reply or the error it returns for a transport outcome
callAPI(t) ==
    IF t.doErr # NoErr
    THEN [resp |-> <<>>, err |-> <<"request failed: ">> \o t.doErr]
    ELSE IF t.status # 200
    THEN IF ~t.json
         THEN [resp |-> <<>>, err |-> <<"API error (status ", ToString(t.status), "): ">> \o t.body]
         ELSE [resp |-> <<>>, err |-> handleAPIError(t.status, t.body)]
    ELSE IF ~t.json
    THEN [resp |-> <<>>, err |-> <<"failed to parse response: ">>]
    ELSE [resp |-> t.body, err |-> NoErr]

----------------------------------------------------------------------------
\* package search: formatting

RECURSIVE citationLines(_, _)
citationLines(citations, i) ==
    IF i > Len(citations) THEN <<>>
    ELSE <<ToString(i), ". ", citations[i], "\n">> \o citationLines(citations, i + 1)

RECURSIVE sourceLines(_, _)
sourceLines(results, i) ==
    IF i > Len(results) THEN <<>>
    ELSE <<"\n", ToString(i), ". **", results[i].Title, "**\n">>
         \o <<"   URL: ", results[i].URL, "\n">>
         \o (IF results[i].Snippet # "" THEN <<"   Snippet: ", results[i].Snippet, "\n">> ELSE <<>>)
         \o sourceLines(results, i + 1)

RECURSIVE questionLines(_, _)
questionLines(questions, i) ==
    IF i > Len(questions) THEN <<>>
    ELSE <<"- ", questions[i], "\n">> \o questionLines(questions, i + 1)

\* formatResponse that writes every section header, also over an empty list
formatResponseAllHeaders(resp) ==
    IF Len(resp.Choices) = 0 THEN <<"No response from Perplexity API">>
    ELSE <<resp.Choices[1]>>
         \o <<"\n\n## Source URLs\n">> \o citationLines(resp.Citations, 1)
         \o <<"\n\n## Detailed Sources\n">> \o sourceLines(resp.SearchResults, 1)
         \o <<"\n\n## Related Questions\n">> \o questionLines(resp.RelatedQuestions, 1)

formatResponse(resp) ==
    IF Len(resp.Choices) = 0 THEN <<"No response from Perplexity API">>
    ELSE <<resp.Choices[1]>>
         \o (IF Len(resp.Citations) > 0
             THEN <<"\n\n## Source URLs\n">> \o citationLines(resp.Citations, 1) ELSE <<>>)
         \o (IF Len(resp.SearchResults) > 0
             THEN <<"\n\n## Detailed Sources\n">> \o sourceLines(resp.SearchResults, 1) ELSE <<>>)
         \o (IF Len(resp.RelatedQuestions) > 0
             THEN <<"\n\n## Related Questions\n">> \o questionLines(resp.RelatedQuestions, 1) ELSE <<>>)

\* the trailing line formatResponseWithCache appends after a successful save
ResultIDLine(uniqueID) == <<"\n\n**Result ID:** ", String(uniqueID)>>

\* formatResponseWithCache that appends the line whatever SaveResult returned
formatResponseWithCacheAlways(content, uniqueID, err) == content \o ResultIDLine(uniqueID)

formatResponseWithCache(content, uniqueID, err) ==
    IF err = NoErr /\ uniqueID # <<>> THEN content \o ResultIDLine(uniqueID) ELSE content

----------------------------------------------------------------------------
\* Inputs of the tool calls

\* SearchParams with the optional fields unset.  A pointer field is <<>> when
\* nil and <<v>> when it points to v.  The model leaves out the domain
\* filters, the date range, the location and the type-specific fields.
SearchParams(query, searchType, model) ==
    [Query |-> query, SearchType |-> searchType, Model |-> model,
     SearchRecencyFilter |-> "", ReturnImages |-> <<>>, ReturnRelatedQuestions |-> <<>>,
     MaxTokens |-> <<>>, Temperature |-> <<>>, Location |-> "",
     SubjectArea |-> "", Ticker |-> "", CompanyName |-> "", ReportType |-> "",
     ContentType |-> "", FileType |-> "", Language |-> "", Country |-> "",
     CustomFilters |-> <<>>]

\* Arguments of a tool call: a map from keys to JSON values.  A JSON value
\* carries its dynamic type: a string, a bool or a number (float64).
Str(s) == [type |-> "string", v |-> s]
Bool(b) == [type |-> "bool", v |-> b]
Num(n) == [type |-> "float64", v |-> n]

\* a JSON object: its key/value pairs in the order a range over the decoded
\* map yields them (the order is chosen by the runtime)
Map(pairs) == [type |-> "map", v |-> pairs]

\* the type assertion args[key].(T): ok is false when the key is missing or
\* holds a value of another type
TypeAssert(args, key, type) ==
    IF key \in DOMAIN args /\ args[key].type = type
    THEN [ok |-> TRUE, v |-> args[key].v]
    ELSE [ok |-> FALSE, v |-> IF type = "string" THEN "" ELSE IF type = "bool" THEN FALSE ELSE 0]

\* a string argument that is present and not empty, else the zero string
StringArg(args, key) == TypeAssert(args, key, "string").v

\* a pointer to the argument when it is present with the right type, else nil
PointerArg(args, key, type) ==
    IF TypeAssert(args, key, type).ok THEN <<TypeAssert(args, key, type).v>> ELSE <<>>

\* Handler.extractSearchParams
extractSearchParams(args, searchType) ==
    IF ~TypeAssert(args, "query", "string").ok \/ TypeAssert(args, "query", "string").v = ""
    THEN [params |-> SearchParams("", "", ""), err |-> <<"query parameter is required">>]
    ELSE [params |->
            [SearchParams(TypeAssert(args, "query", "string").v, searchType,
                          StringArg(args, "model"))
                EXCEPT !.SearchRecencyFilter = StringArg(args, "search_recency_filter"),
                       !.ReturnImages = PointerArg(args, "return_images", "bool"),
                       !.ReturnRelatedQuestions =
                            PointerArg(args, "return_related_questions", "bool"),
                       !.MaxTokens = PointerArg(args, "max_tokens", "float64"),
                       !.Temperature = PointerArg(args, "temperature", "float64"),
                       !.Location = StringArg(args, "location")],
          err |-> NoErr]

\* the parameters a search handler adds to the extracted ones
SpecificParams(searchType, args, params) ==
    CASE searchType = "academic" ->
            [params EXCEPT !.SubjectArea = StringArg(args, "subject_area")]
      [] searchType = "financial" ->
            [params EXCEPT !.Ticker = StringArg(args, "ticker"),
                           !.CompanyName = StringArg(args, "company_name"),
                           !.ReportType = StringArg(args, "report_type")]
      [] searchType = "filtered" ->
            [params EXCEPT !.ContentType = StringArg(args, "content_type"),
                           !.FileType = StringArg(args, "file_type"),
                           !.Language = StringArg(args, "language"),
                           !.Country = StringArg(args, "country"),
                           !.CustomFilters = PointerArg(args, "custom_filters", "map")]
      [] OTHER -> params

\* buildRequest that takes return_citations from the configuration
buildRequestConfigCitations(params, defaultModel, cfg) ==
    [Model |-> IF params.Model # "" THEN params.Model ELSE defaultModel,
     Content |-> params.Query,
     MaxTokens |-> IF params.MaxTokens # <<>> THEN params.MaxTokens[1] ELSE cfg.MaxTokens,
     Temperature |-> IF params.Temperature # <<>> THEN params.Temperature[1] ELSE cfg.Temperature,
     ReturnCitations |-> cfg.ReturnCitations,
     SearchRecencyFilter |-> params.SearchRecencyFilter,
     ReturnImages |-> IF params.ReturnImages # <<>> THEN params.ReturnImages[1] ELSE FALSE,
     ReturnRelatedQuestions |-> IF params.ReturnRelatedQuestions # <<>>
                                THEN params.ReturnRelatedQuestions[1] ELSE FALSE,
     SearchMode |-> "",
     SearchContextSize |-> 0,
     Location |-> params.Location]

\* Searcher.buildRequest.  Numbers are integers: max_tokens as given,
\* temperature in tenths.
buildRequest(params, defaultModel, cfg) ==
    [Model |-> IF params.Model # "" THEN params.Model ELSE defaultModel,
     Content |-> params.Query,
     MaxTokens |-> IF params.MaxTokens # <<>> THEN params.MaxTokens[1] ELSE cfg.MaxTokens,
     Temperature |-> IF params.Temperature # <<>> THEN params.Temperature[1] ELSE cfg.Temperature,
     ReturnCitations |-> TRUE,
     SearchRecencyFilter |-> params.SearchRecencyFilter,
     ReturnImages |-> IF params.ReturnImages # <<>> THEN params.ReturnImages[1] ELSE FALSE,
     ReturnRelatedQuestions |-> IF params.ReturnRelatedQuestions # <<>>
                                THEN params.ReturnRelatedQuestions[1] ELSE FALSE,
     SearchMode |-> "",
     SearchContextSize |-> 0,
     Location |-> params.Location]

\* the search tool calls of the state machine: [tool, args]
SearchInputs ==
    { [tool |-> "perplexity_search", args |-> [query |-> Str("capital of France")]],
      [tool |-> "perplexity_search", args |-> [query |-> Str("")]] }

\* the calls of the specialised search tools, made one at a time
SpecialisedInputs ==
    { [tool |-> "perplexity_academic_search", args |-> [query |-> Str("capital of France")]],
      [tool |-> "perplexity_financial_search",
       args |-> [query |-> Str("earnings"), ticker |-> Str("AAPL"), model |-> Str(ModelSonar)]] }

\* arguments of direct SaveResult calls: [query, searchType, model, result, parameters]
SaveInputs ==
    { [query |-> "rust", searchType |-> "general", model |-> ModelSonar,
       result |-> <<"alpha", "beta">>, parameters |-> <<>>] }

\* identifiers passed to get_previous_result: the ones the generator can
\* produce and malformed ones (too short, too long, lower case, non-ASCII
\* with 10 bytes)
Nine == <<"A", "A", "A", "A", "A", "A", "A", "A", "A">>
GetInputs ==
    RandomIDs \cup { Nine, Nine \o <<"A", "A">>, Nine \o <<"a">>,
                     SubSeq(Nine, 1, 8) \o <<"U+00E9">> }

convertParamsToMap(params) ==
    << <<"query", params.Query>>, <<"search_type", params.SearchType>> >>
    \o (IF params.Model # "" THEN << <<"model", params.Model>> >> ELSE <<>>)
    \o (IF params.SearchRecencyFilter # ""
        THEN << <<"search_recency_filter", params.SearchRecencyFilter>> >> ELSE <<>>)
    \o (IF params.ReturnImages # <<>>
        THEN << <<"return_images", params.ReturnImages[1]>> >> ELSE <<>>)
    \o (IF params.ReturnRelatedQuestions # <<>>
        THEN << <<"return_related_questions", params.ReturnRelatedQuestions[1]>> >> ELSE <<>>)
    \o (IF params.MaxTokens # <<>> THEN << <<"max_tokens", params.MaxTokens[1]>> >> ELSE <<>>)
    \o (IF params.Temperature # <<>> THEN << <<"temperature", params.Temperature[1]>> >> ELSE <<>>)
    \o (IF params.Location # "" THEN << <<"location", params.Location>> >> ELSE <<>>)
    \o (IF params.SubjectArea # "" THEN << <<"subject_area", params.SubjectArea>> >> ELSE <<>>)
    \o (IF params.Ticker # "" THEN << <<"ticker", params.Ticker>> >> ELSE <<>>)
    \o (IF params.CompanyName # "" THEN << <<"company_name", params.CompanyName>> >> ELSE <<>>)
    \o (IF params.ReportType # "" THEN << <<"report_type", params.ReportType>> >> ELSE <<>>)
    \o (IF params.ContentType # "" THEN << <<"content_type", params.ContentType>> >> ELSE <<>>)
    \o (IF params.FileType # "" THEN << <<"file_type", params.FileType>> >> ELSE <<>>)
    \o (IF params.Language # "" THEN << <<"language", params.Language>> >> ELSE <<>>)
    \o (IF params.Country # "" THEN << <<"country", params.Country>> >> ELSE <<>>)
    \o (IF params.CustomFilters # <<>>
        THEN << <<"custom_filters", params.CustomFilters[1]>> >> ELSE <<>>)

----------------------------------------------------------------------------
\* Initial state: the server has been constructed, no call is running, the
\* cache holds no entry

Configs ==
    {[ResultsRootFolder |-> r, DefaultModel |-> ModelSonar, MaxTokens |-> 1024,
      Temperature |-> 2, ReturnCitations |-> TRUE, ReturnImages |-> FALSE,
      ReturnRelated |-> FALSE] : r \in {"", "results"}}

NoArg == <<>>
NoLoc == [query |-> "", searchType |-> "", model |-> "", result |-> <<>>,
          parameters |-> <<>>, uniqueID |-> <<>>, timestamp |-> 0,
          saveErr |-> NoErr, apiErr |-> NoErr, inner |-> <<>>, request |-> <<>>]
NoRet == [out |-> <<>>, err |-> NoErr]
NoGen == [id |-> <<>>, err |-> NoErr, draws |-> 0, rejected |-> {}]
NoCall == [fn |-> "", in |-> <<>>, out |-> <<>>]
NoDirs == [id \in {} |-> [meta |-> NoFile, result |-> NoFile]]

InitCalls ==
    /\ config \in Configs
    /\ rootExists \in BOOLEAN
    /\ dirs = NoDirs
    /\ pc = [p \in Procs |-> "idle"]
    /\ op = [p \in Procs |-> "none"]
    /\ arg = [p \in Procs |-> NoArg]
    /\ loc = [p \in Procs |-> NoLoc]
    /\ ret = [p \in Procs |-> NoRet]
    /\ mkdirs = [id \in RandomIDs |-> 0]
    /\ returned = {}
    /\ wrote = [p \in Procs |-> FALSE]
    /\ gen = NoGen
    /\ log = [p \in Procs |-> <<>>]
    /\ call = NoCall

\* the disk does not fail
Init == InitCalls /\ faults = 0

\* the disk fails up to MaxFaults times
InitSeq == InitCalls /\ faults = MaxFaults

----------------------------------------------------------------------------
\* SaveResult, step by step

\* SaveResult returns (uniqueID, err) to its caller, and the caller finishes:
\* a direct call returns the pair, formatResponseWithCache swallows the error
\* and returns the text
SaveReturns(p, uniqueID, err) ==
    /\ pc' = [pc EXCEPT ![p] = "done"]
    /\ arg' = [arg EXCEPT ![p] = NoArg]
    /\ loc' = [loc EXCEPT ![p] = [NoLoc EXCEPT !.result = loc[p].result, !.uniqueID = uniqueID,
                                         !.saveErr = err, !.apiErr = loc[p].apiErr,
                                         !.request = loc[p].request]]
    /\ ret' = [ret EXCEPT ![p] =
                 IF op[p] = "SaveResult"
                 THEN [out |-> uniqueID, err |-> err]
                 ELSE [out |-> formatResponseWithCache(loc[p].result, uniqueID, err),
                       err |-> NoErr]]

\* a direct call of cache.SaveResult
CallSaveResult(p) ==
    /\ pc[p] = "idle"
    /\ \E a \in SaveInputs :
        /\ arg' = [arg EXCEPT ![p] = a]
        /\ loc' = [loc EXCEPT ![p] = [NoLoc EXCEPT !.query = a.query, !.searchType = a.searchType,
                                         !.model = a.model, !.result = a.result,
                                         !.parameters = a.parameters]]
    /\ pc' = [pc EXCEPT ![p] = "SaveResult"]
    /\ op' = [op EXCEPT ![p] = "SaveResult"]
    /\ log' = [log EXCEPT ![p] = <<"SaveResult">>]
    /\ UNCHANGED <<config, rootExists, dirs, ret, mkdirs, returned, wrote, gen, faults, call>>

\* SaveResult without the check of the root folder
SaveGenerateIDUnchecked(p) ==
    /\ pc[p] = "SaveResult"
    /\ \E g \in {[id |-> o.id, err |-> o.err] :
                    o \in GenerateUniqueID(config.ResultsRootFolder, rootExists, dirs)} :
          IF g.err # NoErr
          THEN SaveReturns(p, <<>>, <<"failed to generate unique ID: ">> \o g.err)
          ELSE /\ loc' = [loc EXCEPT ![p].uniqueID = g.id]
               /\ pc' = [pc EXCEPT ![p] = "MkdirAll"]
               /\ UNCHANGED <<arg, ret>>
    /\ UNCHANGED <<config, rootExists, dirs, op, mkdirs, returned, wrote, gen, faults, call, log>>

\* SaveResult up to the MkdirAll call: the root check and GenerateUniqueID
SaveGenerateID(p) ==
    /\ pc[p] = "SaveResult"
    /\ IF config.ResultsRootFolder = ""
       THEN SaveReturns(p, <<>>, NoErr)
       ELSE \E g \in {[id |-> o.id, err |-> o.err] :
                         o \in GenerateUniqueID(config.ResultsRootFolder, rootExists, dirs)} :
              IF g.err # NoErr
              THEN SaveReturns(p, <<>>, <<"failed to generate unique ID: ">> \o g.err)
              ELSE /\ loc' = [loc EXCEPT ![p].uniqueID = g.id]
                   /\ pc' = [pc EXCEPT ![p] = "MkdirAll"]
                   /\ UNCHANGED <<arg, ret>>
    /\ UNCHANGED <<config, rootExists, dirs, op, mkdirs, returned, wrote, gen, faults, call, log>>

\* os.MkdirAll(rootFolder/uniqueID): creates the root and the directory, and
\* succeeds as well when the directory exists already
SaveMkdirAll(p) ==
    /\ pc[p] = "MkdirAll"
    /\ \/ /\ rootExists' = TRUE
          /\ dirs' = IF loc[p].uniqueID \in DOMAIN dirs THEN dirs
                     ELSE dirs @@ (loc[p].uniqueID :> [meta |-> NoFile, result |-> NoFile])
          /\ mkdirs' = [mkdirs EXCEPT ![loc[p].uniqueID] = @ + 1]
          /\ wrote' = [wrote EXCEPT ![p] = TRUE]
          /\ pc' = [pc EXCEPT ![p] = "WriteMetadata"]
          /\ UNCHANGED <<arg, loc, ret, faults>>
       \/ /\ faults > 0
          /\ faults' = faults - 1
          /\ rootExists' \in {rootExists, TRUE}
          /\ wrote' = [wrote EXCEPT ![p] = rootExists' # rootExists]
          /\ SaveReturns(p, <<>>, <<"failed to create result folder: ", "mkdir">>)
          /\ UNCHANGED <<dirs, mkdirs>>
    /\ UNCHANGED <<config, op, returned, gen, call, log>>

\* the metadata is built with time.Now(), marshalled and written
SaveWriteMetadata(p) ==
    /\ pc[p] = "WriteMetadata"
    /\ \E now \in Times :
        LET id == loc[p].uniqueID
            doc == yamlMarshal(QueryMetadata(loc[p].query, loc[p].searchType, now,
                                             loc[p].model, loc[p].parameters))
        IN \/ /\ dirs' = [dirs EXCEPT ![id].meta = File(doc)]
              /\ loc' = [loc EXCEPT ![p].timestamp = now]
              /\ pc' = [pc EXCEPT ![p] = "WriteResult"]
              /\ UNCHANGED <<arg, ret, faults>>
           \/ /\ faults > 0
              /\ faults' = faults - 1
              /\ \E f \in FailedWriteYaml(dirs[id].meta, doc) :
                    dirs' = [dirs EXCEPT ![id].meta = f]
              /\ SaveReturns(p, <<>>, <<"failed to write metadata file: ", "write">>)
    /\ UNCHANGED <<config, rootExists, op, mkdirs, returned, wrote, gen, call, log>>

\* the result text is written, and SaveResult returns the identifier
SaveWriteResult(p) ==
    /\ pc[p] = "WriteResult"
    /\ LET id == loc[p].uniqueID
       IN \/ /\ dirs' = [dirs EXCEPT ![id].result = File(loc[p].result)]
             /\ returned' = returned \cup
                    {[id |-> id, result |-> loc[p].result, query |-> loc[p].query,
                      searchType |-> loc[p].searchType, timestamp |-> loc[p].timestamp]}
             /\ SaveReturns(p, id, NoErr)
             /\ faults' = faults
          \/ /\ faults > 0
             /\ faults' = faults - 1
             /\ \E f \in FailedWrite(dirs[id].result, loc[p].result) :
                   dirs' = [dirs EXCEPT ![id].result = f]
             /\ returned' = returned
             /\ SaveReturns(p, <<>>, <<"failed to write result file: ", "write">>)
    /\ UNCHANGED <<config, rootExists, op, mkdirs, wrote, gen, call, log>>

----------------------------------------------------------------------------
\* The search tool calls (Searcher.Search, AcademicSearch, FinancialSearch,
\* FilteredSearch)

\* the method the handler dispatches a search type to
SearchMethod(searchType) ==
    CASE searchType = "general" -> "Search"
      [] searchType = "academic" -> "AcademicSearch"
      [] searchType = "financial" -> "FinancialSearch"
      [] OTHER -> "FilteredSearch"

SearchOps == {"Search", "AcademicSearch", "FinancialSearch", "FilteredSearch"}

\* the specialised searches without their own default model
DefaultedParamsNone(params) == params

\* the three specialised searches set params.Model to sonar-pro when empty
DefaultedParams(params) ==
    IF params.SearchType # "general" /\ params.Model = ""
    THEN [params EXCEPT !.Model = ModelSonarPro]
    ELSE params

\* the configured default recorded whatever the request
CacheModelDefault(params, cfg) == cfg.DefaultModel

\* the model formatResponseWithCache records
CacheModel(params, cfg) == IF params.Model # "" THEN params.Model ELSE cfg.DefaultModel

\* the search type a search tool stands for
ToolSearchType(tool) ==
    CASE tool = "perplexity_search" -> "general"
      [] tool = "perplexity_academic_search" -> "academic"
      [] tool = "perplexity_financial_search" -> "financial"
      [] tool = "perplexity_filtered_search" -> "filtered"

\* the loop that joins the context additions with ", "
RECURSIVE JoinContext(_, _)
JoinContext(additions, i) ==
    IF i > Len(additions) THEN ""
    ELSE (IF i > 1 THEN ", " ELSE "") \o additions[i] \o JoinContext(additions, i + 1)

\* the additions a field contributes: one when it is set
Addition(label, value) == IF value # "" THEN <<label \o value>> ELSE <<>>

\* FinancialSearch without the context prefix
FinancialContentRaw(params) == params.Query

\* the message content FinancialSearch sends
FinancialContent(params) ==
    LET contextAdditions == Addition("Ticker: ", params.Ticker)
                            \o Addition("Company: ", params.CompanyName)
                            \o Addition("Report Type: ", params.ReportType)
    IN IF Len(contextAdditions) > 0
       THEN "[" \o JoinContext(contextAdditions, 1) \o "] " \o params.Query
       ELSE params.Query

\* the loop over the custom filters: "key: value" joined with ", "
RECURSIVE CustomContext(_, _)
CustomContext(pairs, i) ==
    IF i > Len(pairs) THEN ""
    ELSE (IF i > 1 THEN ", " ELSE "") \o pairs[i][1] \o ": " \o pairs[i][2]
         \o CustomContext(pairs, i + 1)

\* FilteredSearch whose custom filters replace the content built so far
FilteredContentReplacing(params) ==
    LET filterContext == Addition("Content Type: ", params.ContentType)
                         \o Addition("File Type: ", params.FileType)
                         \o Addition("Language: ", params.Language)
                         \o Addition("Country: ", params.Country)
    IN IF params.CustomFilters # <<>> /\ Len(params.CustomFilters[1]) > 0
       THEN "[Custom Filters: " \o CustomContext(params.CustomFilters[1], 1) \o "] "
            \o params.Query
       ELSE IF Len(filterContext) > 0
       THEN "[Filters: " \o JoinContext(filterContext, 1) \o "] " \o params.Query
       ELSE params.Query

\* the message content FilteredSearch sends
FilteredContent(params) ==
    LET filterContext == Addition("Content Type: ", params.ContentType)
                         \o Addition("File Type: ", params.FileType)
                         \o Addition("Language: ", params.Language)
                         \o Addition("Country: ", params.Country)
        content == IF Len(filterContext) > 0
                   THEN "[Filters: " \o JoinContext(filterContext, 1) \o "] " \o params.Query
                   ELSE params.Query
    IN IF params.CustomFilters # <<>> /\ Len(params.CustomFilters[1]) > 0
       THEN "[Custom Filters: " \o CustomContext(params.CustomFilters[1], 1) \o "] " \o content
       ELSE content

\* FilteredSearch whose country always overwrites the location
FilteredLocationCountry(params, location) ==
    IF params.Country # "" THEN params.Country ELSE location

\* the location FilteredSearch sends, given the one buildRequest set
FilteredLocation(params, location) ==
    IF params.Country # "" /\ location = "" THEN params.Country ELSE location

\* the request a search method hands to callAPI, for params as the handler
\* built them
SearchRequest(params, cfg) ==
    LET req == buildRequest(DefaultedParams(params), cfg.DefaultModel, cfg)
    IN CASE SearchMethod(params.SearchType) = "Search" ->
              [req EXCEPT !.ReturnImages =
                              IF params.ReturnImages = <<>> THEN cfg.ReturnImages ELSE @,
                          !.ReturnRelatedQuestions =
                              IF params.ReturnRelatedQuestions = <<>> THEN cfg.ReturnRelated ELSE @]
         [] SearchMethod(params.SearchType) = "AcademicSearch" ->
              [req EXCEPT !.SearchMode = "academic", !.SearchContextSize = 10,
                          !.Content = IF params.SubjectArea # ""
                                      THEN "[Subject: " \o params.SubjectArea \o "] "
                                           \o params.Query
                                      ELSE @]
         [] SearchMethod(params.SearchType) = "FinancialSearch" ->
              [req EXCEPT !.Content = FinancialContent(params)]
         [] SearchMethod(params.SearchType) = "FilteredSearch" ->
              [req EXCEPT !.Content = FilteredContent(params),
                          !.Location = FilteredLocation(params, @)]
         [] OTHER -> req

\* json.Marshal(req) in callAPI: the keys of the body and their values; a
\* field tagged omitempty is left out when it holds its zero value
jsonMarshalRequest(req) ==
    LET always == {"model", "messages", "return_citations"}
        field == [model |-> req.Model, messages |-> req.Content,
                  max_tokens |-> req.MaxTokens, temperature |-> req.Temperature,
                  return_citations |-> req.ReturnCitations,
                  search_recency_filter |-> req.SearchRecencyFilter,
                  return_images |-> req.ReturnImages,
                  return_related_questions |-> req.ReturnRelatedQuestions,
                  search_mode |-> req.SearchMode,
                  search_context_size |-> req.SearchContextSize,
                  location |-> req.Location]
        zero == [model |-> "", messages |-> "", max_tokens |-> 0, temperature |-> 0,
                 return_citations |-> FALSE, search_recency_filter |-> "",
                 return_images |-> FALSE, return_related_questions |-> FALSE,
                 search_mode |-> "", search_context_size |-> 0, location |-> ""]
    IN [k \in {key \in DOMAIN field : key \in always \/ field[key] # zero[key]} |-> field[k]]

\* a search tool call that sends its request a second time
HandleSearchTwice(cfg, tool, args) ==
    LET r == extractSearchParams(args, ToolSearchType(tool))
        params == SpecificParams(ToolSearchType(tool), args, r.params)
    IN IF r.err # NoErr
       THEN [err |-> <<"invalid parameters: ">> \o r.err, params |-> r.params, sent |-> <<>>]
       ELSE [err |-> NoErr, params |-> DefaultedParams(params),
             sent |-> <<jsonMarshalRequest(SearchRequest(params, cfg)),
                        jsonMarshalRequest(SearchRequest(params, cfg))>>]

\* a search tool call from the handler to the point where its method calls
\* callAPI: the error of the handler, or the params handed to the method and
\* the bodies of the requests sent
HandleSearch(cfg, tool, args) ==
    LET r == extractSearchParams(args, ToolSearchType(tool))
        params == SpecificParams(ToolSearchType(tool), args, r.params)
    IN IF r.err # NoErr
       THEN [err |-> <<"invalid parameters: ">> \o r.err, params |-> r.params, sent |-> <<>>]
       ELSE [err |-> NoErr, params |-> DefaultedParams(params),
             sent |-> <<jsonMarshalRequest(SearchRequest(params, cfg))>>]

\* the call starts: the handler extracts the parameters, and the method
\* builds and sends its request
CallSearchFrom(p, inputs) ==
    /\ pc[p] = "idle"
    /\ \E c \in inputs :
        LET h == HandleSearch(config, c.tool, c.args)
        IN IF h.err # NoErr
           THEN /\ op' = [op EXCEPT ![p] = c.tool]
                /\ pc' = [pc EXCEPT ![p] = "done"]
                /\ ret' = [ret EXCEPT ![p] = [out |-> <<>>, err |-> h.err]]
                /\ UNCHANGED <<arg, loc, log>>
           ELSE /\ op' = [op EXCEPT ![p] = SearchMethod(h.params.SearchType)]
                /\ pc' = [pc EXCEPT ![p] = "callAPI"]
                /\ arg' = [arg EXCEPT ![p] = h.params]
                /\ loc' = [loc EXCEPT ![p].request = h.sent]
                /\ log' = [log EXCEPT ![p] = [i \in 1..Len(h.sent) |-> "request"]]
                /\ ret' = ret
    /\ UNCHANGED <<config, rootExists, dirs, mkdirs, returned, wrote, gen, call, faults>>

CallSearch(p) == CallSearchFrom(p, SearchInputs)

CallSpecialisedSearch(p) == CallSearchFrom(p, SpecialisedInputs)

\* a search that ignores the error of callAPI
SearchProceedsAlways(err) == TRUE

\* does the search go on after callAPI returned err
SearchProceeds(err) == err = NoErr

\* callAPI returns: on an error the search returns it; otherwise the reply is
\* formatted and, with caching enabled, handed to SaveResult
SearchReply(p) ==
    /\ pc[p] = "callAPI"
    /\ \E t \in Transports :
        LET r == callAPI(t)
            content == formatResponse(IF r.err = NoErr THEN r.resp
                                      ELSE PerplexityResponse(<<>>, <<>>, <<>>, <<>>))
        IN IF ~SearchProceeds(r.err)
           THEN /\ ret' = [ret EXCEPT ![p] = [out |-> <<>>, err |-> r.err]]
                /\ loc' = [loc EXCEPT ![p].apiErr = r.err]
                /\ pc' = [pc EXCEPT ![p] = "done"]
                /\ log' = [log EXCEPT ![p] = Append(@, "error")]
           ELSE /\ loc' = [loc EXCEPT ![p] =
                             [NoLoc EXCEPT !.query = arg[p].Query,
                                           !.searchType = arg[p].SearchType,
                                           !.model = CacheModel(arg[p], config),
                                           !.result = content,
                                           !.parameters = convertParamsToMap(arg[p]),
                                           !.apiErr = r.err,
                                           !.request = loc[p].request]]
                /\ IF IsCachingEnabled(config.ResultsRootFolder)
                   THEN /\ pc' = [pc EXCEPT ![p] = "SaveResult"]
                        /\ ret' = ret
                        /\ log' = [log EXCEPT ![p] =
                                      @ \o <<IF r.err = NoErr THEN "reply" ELSE "error",
                                              "SaveResult">>]
                   ELSE /\ pc' = [pc EXCEPT ![p] = "done"]
                        /\ ret' = [ret EXCEPT ![p] = [out |-> content, err |-> NoErr]]
                        /\ log' = [log EXCEPT ![p] =
                                      Append(@, IF r.err = NoErr THEN "reply" ELSE "error")]
    /\ arg' = [arg EXCEPT ![p] = NoArg]
    /\ UNCHANGED <<config, rootExists, dirs, op, mkdirs, returned, wrote, gen, faults, call>>

----------------------------------------------------------------------------
\* The cache tool calls (Searcher.ListPrevious, Searcher.GetPreviousResult)

ErrNotEnabled ==
    <<"results caching is not enabled. Set PERPLEXITY_RESULTS_ROOT_FOLDER environment variable to enable caching">>
ErrNoQueries ==
    <<"no previous queries found. The results folder may be empty or not configured properly">>

\* json.MarshalIndent of the items: an array of objects keyed by the json tags
jsonMarshalIndent(queries) ==
    [i \in 1..Len(queries) |->
        [query |-> queries[i].Query, unique_id |-> queries[i].UniqueID,
         datetime |-> queries[i].DateTime, search_type |-> queries[i].SearchType]]

\* ListPrevious that answers an empty cache with an empty array
ListPreviousEmptyArray(cfg, r) ==
    IF ~IsCachingEnabled(cfg.ResultsRootFolder) THEN [out |-> <<"[]">>, err |-> ErrNotEnabled]
    ELSE IF r.err # NoErr
    THEN [out |-> <<>>, err |-> <<"failed to list previous queries: ">> \o r.err]
    ELSE [out |-> jsonMarshalIndent(r.items), err |-> NoErr]

\* Searcher.ListPrevious for a result r of cache.ListPreviousQueries
ListPrevious(cfg, r) ==
    IF ~IsCachingEnabled(cfg.ResultsRootFolder) THEN [out |-> <<"[]">>, err |-> ErrNotEnabled]
    ELSE IF r.err # NoErr
    THEN [out |-> <<>>, err |-> <<"failed to list previous queries: ">> \o r.err]
    ELSE IF Len(r.items) = 0 THEN [out |-> <<"[]">>, err |-> ErrNoQueries]
    ELSE [out |-> jsonMarshalIndent(r.items), err |-> NoErr]

\* Searcher.GetPreviousResult for a result r of cache.GetPreviousResult
SearcherGetPreviousResult(cfg, r) ==
    IF ~IsCachingEnabled(cfg.ResultsRootFolder) THEN [out |-> <<>>, err |-> ErrNotEnabled]
    ELSE IF r.err # NoErr
    THEN [out |-> <<>>, err |-> <<"failed to get previous result: ">> \o r.err]
    ELSE [out |-> r.out, err |-> NoErr]

CallListPrevious(p) ==
    /\ pc[p] = "idle"
    /\ \E r \in ListPreviousQueries(config.ResultsRootFolder, rootExists, dirs) :
        /\ loc' = [loc EXCEPT ![p].inner = r]
        /\ ret' = [ret EXCEPT ![p] = ListPrevious(config, r)]
    /\ pc' = [pc EXCEPT ![p] = "done"]
    /\ op' = [op EXCEPT ![p] = "ListPrevious"]
    /\ UNCHANGED <<config, rootExists, dirs, arg, mkdirs, returned, wrote, gen, faults, call, log>>

CallGetPreviousResult(p) ==
    /\ pc[p] = "idle"
    /\ \E uniqueID \in GetInputs :
        LET r == GetPreviousResult(config.ResultsRootFolder, rootExists, dirs, uniqueID)
        IN /\ arg' = [arg EXCEPT ![p] = uniqueID]
           /\ loc' = [loc EXCEPT ![p].inner = r]
           /\ ret' = [ret EXCEPT ![p] = SearcherGetPreviousResult(config, r)]
    /\ pc' = [pc EXCEPT ![p] = "done"]
    /\ op' = [op EXCEPT ![p] = "GetPreviousResult"]
    /\ UNCHANGED <<config, rootExists, dirs, mkdirs, returned, wrote, gen, faults, call, log>>

\* the finished call hands its result to the host and the goroutine is free
Return(p) ==
    /\ pc[p] = "done"
    /\ pc' = [pc EXCEPT ![p] = "idle"]
    /\ op' = [op EXCEPT ![p] = "none"]
    /\ arg' = [arg EXCEPT ![p] = NoArg]
    /\ loc' = [loc EXCEPT ![p] = NoLoc]
    /\ ret' = [ret EXCEPT ![p] = NoRet]
    /\ wrote' = [wrote EXCEPT ![p] = FALSE]
    /\ log' = [log EXCEPT ![p] = <<>>]
    /\ UNCHANGED <<config, rootExists, dirs, mkdirs, returned, gen, faults, call>>

----------------------------------------------------------------------------
\* Specifications

\* Spec: the host runs up to NumProcs tool calls concurrently, on a disk that
\* does not fail
Next ==
    \E p \in Procs :
        \/ CallSearch(p)
        \/ SearchReply(p)
        \/ SaveGenerateID(p)
        \/ SaveMkdirAll(p)
        \/ SaveWriteMetadata(p)
        \/ SaveWriteResult(p)
        \/ CallListPrevious(p)
        \/ CallGetPreviousResult(p)
        \/ Return(p)

Spec == Init /\ [][Next]_vars

\* SpecSeq: one goroutine runs one call after the other, a tool call or a
\* direct SaveResult call, on a disk that fails up to MaxFaults times
NextSeq ==
    \E p \in {1} :
        \/ CallSearch(p)
        \/ CallSpecialisedSearch(p)
        \/ SearchReply(p)
        \/ CallSaveResult(p)
        \/ SaveGenerateID(p)
        \/ SaveMkdirAll(p)
        \/ SaveWriteMetadata(p)
        \/ SaveWriteResult(p)
        \/ CallListPrevious(p)
        \/ CallGetPreviousResult(p)
        \/ Return(p)

SpecSeq == InitSeq /\ [][NextSeq]_vars

\* SpecGen: direct calls of GenerateUniqueID on a cache that holds any set of
\* complete entries (none when no root folder is configured)
Entry == [meta |-> File(yamlMarshal(QueryMetadata("rust", "general", 1, ModelSonar, <<>>))),
          result |-> File(<<"alpha", "beta">>)]

InitGen ==
    /\ config \in Configs
    /\ \E S \in SUBSET RandomIDs :
          /\ config.ResultsRootFolder = "" => S = {}
          /\ dirs = [id \in S |-> Entry]
          /\ rootExists \in {TRUE, S # {}}
          /\ mkdirs = [id \in RandomIDs |-> IF id \in S THEN 1 ELSE 0]
    /\ pc = [p \in Procs |-> "idle"]
    /\ op = [p \in Procs |-> "none"]
    /\ arg = [p \in Procs |-> NoArg]
    /\ loc = [p \in Procs |-> NoLoc]
    /\ ret = [p \in Procs |-> NoRet]
    /\ returned = {}
    /\ wrote = [p \in Procs |-> FALSE]
    /\ gen = NoGen
    /\ log = [p \in Procs |-> <<>>]
    /\ call = NoCall
    /\ faults = 0

CallGenerateUniqueID ==
    /\ gen' \in GenerateUniqueID(config.ResultsRootFolder, rootExists, dirs)
    /\ UNCHANGED <<config, rootExists, dirs, pc, op, arg, loc, ret, mkdirs, returned, wrote, faults, call, log>>

NextGen == CallGenerateUniqueID

SpecGen == InitGen /\ [][NextGen]_vars

----------------------------------------------------------------------------
\* SpecFn: direct calls of the functions that build a request, map a reply
\* and format a response, on inputs drawn from bounded sets

\* the configurations LoadConfig can produce
ReqConfigs ==
    [ResultsRootFolder : {""}, DefaultModel : {ModelSonar, ModelSonarPro, "sonar-reasoning"},
     MaxTokens : {1024}, Temperature : {2}, ReturnCitations : BOOLEAN,
     ReturnImages : BOOLEAN, ReturnRelated : BOOLEAN]

SearchTools == {"perplexity_search", "perplexity_academic_search",
                "perplexity_financial_search", "perplexity_filtered_search"}

\* the value that stands for a key the caller left out
Missing == [type |-> "missing", v |-> ""]

\* arguments of search tool calls: per key, the values tried
ArgOptions ==
    [query : {Missing, Str(""), Str("   "), Str("capital of France"), Num(7)},
     model : {Missing, Str("sonar-reasoning")},
     search_recency_filter : {Missing, Str("week"), Str("decade")},
     return_citations : {Missing, Bool(FALSE)},
     return_images : {Missing, Bool(TRUE), Bool(FALSE)},
     return_related_questions : {Missing, Bool(TRUE)},
     max_tokens : {Missing, Num(50), Num(0)},
     temperature : {Missing, Num(0)}]

ToolArgs == {[k \in {key \in DOMAIN o : o[key] # Missing} |-> o[k]] : o \in ArgOptions}

\* replies of the remote service that carry a JSON error envelope, with the
\* transport outcomes of the state machine
ErrorStatuses == {400, 401, 429, 500, 503}

Replies ==
    Transports \cup
    {[doErr |-> NoErr, status |-> st, json |-> TRUE,
      body |-> [Type |-> "upstream_error", Message |-> m]] :
        st \in ErrorStatuses, m \in {<<"slow", "down">>, <<"Invalid", "model", "x">>}}

\* replies to format
Responses ==
    {PerplexityResponse(ch, ci, sr, rq) :
        ch \in {<<"Paris">>, <<"Paris", "Lyon">>},
        ci \in {<<>>, <<"https://a.example">>, <<"https://b.example", "https://a.example">>},
        sr \in {<<>>,
                << [Title |-> "A", URL |-> "https://a.example", Snippet |-> ""] >>,
                << [Title |-> "B", URL |-> "https://b.example", Snippet |-> "about b"],
                   [Title |-> "A", URL |-> "https://a.example", Snippet |-> ""] >>},
        rq \in {<<>>, <<"why">>, <<"why", "how">>}}

InitFn ==
    /\ config \in ReqConfigs
    /\ rootExists = FALSE
    /\ dirs = NoDirs
    /\ pc = [p \in Procs |-> "idle"]
    /\ op = [p \in Procs |-> "none"]
    /\ arg = [p \in Procs |-> NoArg]
    /\ loc = [p \in Procs |-> NoLoc]
    /\ ret = [p \in Procs |-> NoRet]
    /\ mkdirs = [id \in RandomIDs |-> 0]
    /\ returned = {}
    /\ wrote = [p \in Procs |-> FALSE]
    /\ gen = NoGen
    /\ log = [p \in Procs |-> <<>>]
    /\ call = NoCall
    /\ faults = 0

Calls(fn, in, out) ==
    /\ call' = [fn |-> fn, in |-> in, out |-> out]
    /\ UNCHANGED <<config, rootExists, dirs, pc, op, arg, loc, ret, mkdirs, returned, wrote, gen,
                   log, faults>>

\* one direct call per run
CallHandleSearch ==
    /\ call = NoCall
    /\ \E tool \in SearchTools, args \in ToolArgs :
          Calls("HandleSearch", [tool |-> tool, args |-> args], HandleSearch(config, tool, args))

CallCallAPI ==
    /\ call = NoCall
    /\ \E t \in Replies : Calls("callAPI", t, callAPI(t))

CallFormatResponse ==
    /\ call = NoCall
    /\ \E resp \in Responses : Calls("formatResponse", resp, formatResponse(resp))

NextFn == CallHandleSearch \/ CallCallAPI \/ CallFormatResponse

SpecFn == InitFn /\ [][NextFn]_vars

----------------------------------------------------------------------------
\* SpecDisk: one direct call of cache.ListPreviousQueries on a root folder
\* found in any condition

\* names of children of the root
ChildNames == {Nine \o <<"A">>, Nine \o <<"B">>, <<"n", "o", "t", "e", "s">>}

\* the metadata file of an entry saved at time t
GoodMeta(t) == File(yamlMarshal(QueryMetadata("capital of France", "general", t, ModelSonar, <<>>)))

\* what a child of the root can be: a file, or a directory whose metadata
\* file is missing, unreadable, unparseable or well formed
Children ==
    {File(<<"text">>)} \cup
    {[meta |-> m, result |-> File(<<"Paris">>)] :
        m \in {NoFile, Unreadable, File(<<TornLine>>)} \cup {GoodMeta(t) : t \in Times}}

\* the conditions of the root folder: missing, unreadable, or readable with
\* any children
Disks ==
    {Disk(FALSE, FALSE, NoDirs), Disk(TRUE, FALSE, NoDirs)} \cup
    UNION {{Disk(TRUE, TRUE, c) : c \in [names -> Children]} : names \in SUBSET ChildNames}

CallListPreviousQueries ==
    /\ call = NoCall
    /\ \E root \in {"", "results"}, disk \in Disks :
          Calls("ListPreviousQueries", [root |-> root, disk |-> disk],
                [results |-> ListPreviousQueriesDisk(root, disk),
                 fs |-> ListPreviousQueriesFS(root, disk)])

NextDisk == CallListPreviousQueries

SpecDisk == InitFn /\ [][NextDisk]_vars

----------------------------------------------------------------------------
\* SpecContent: one direct call of the financial or the filtered search tool

\* arguments of financial search calls: per key, the values tried
FinancialArgOptions ==
    [query : {Str("earnings")},
     ticker : {Missing, Str("AAPL"), Str(""), Num(7)},
     company_name : {Missing, Str("Apple"), Str("")},
     report_type : {Missing, Str("10-K")}]

FinancialArgs ==
    {[k \in {key \in DOMAIN o : o[key] # Missing} |-> o[k]] : o \in FinancialArgOptions}

\* arguments of filtered search calls; a custom filter map of two pairs is
\* tried in both orders a range over it can take
FilteredArgOptions ==
    [query : {Str("earnings")},
     content_type : {Missing, Str("news")},
     file_type : {Missing, Str("pdf")},
     language : {Missing, Str("en")},
     country : {Missing, Str("FR"), Str("")},
     location : {Missing, Str("Paris")},
     custom_filters : {Missing, Map(<<>>), Map(<< <<"site", "sec.gov">> >>),
                       Map(<< <<"site", "sec.gov">>, <<"year", "2024">> >>),
                       Map(<< <<"year", "2024">>, <<"site", "sec.gov">> >>)}]

FilteredArgs ==
    {[k \in {key \in DOMAIN o : o[key] # Missing} |-> o[k]] : o \in FilteredArgOptions}

CallFinancialSearch ==
    /\ call = NoCall
    /\ \E args \in FinancialArgs :
          Calls("HandleSearch", [tool |-> "perplexity_financial_search", args |-> args],
                HandleSearch(config, "perplexity_financial_search", args))

CallFilteredSearch ==
    /\ call = NoCall
    /\ \E args \in FilteredArgs :
          Calls("HandleSearch", [tool |-> "perplexity_filtered_search", args |-> args],
                HandleSearch(config, "perplexity_filtered_search", args))

NextContent == CallFinancialSearch \/ CallFilteredSearch

SpecContent == InitFn /\ [][NextContent]_vars

----------------------------------------------------------------------------
\* SpecClient: the map-based client (package perplexity), one direct call of
\* AcademicSearch, FinancialSearch or FilteredSearch

\* buildRequest of the map-based client: the model and the content
ClientBuildRequest(query, params, defaultModel) ==
    [Model |-> IF TypeAssert(params, "model", "string").ok
                  /\ TypeAssert(params, "model", "string").v # ""
               THEN TypeAssert(params, "model", "string").v
               ELSE defaultModel,
     Content |-> query,
     ReturnCitations |-> TRUE]

\* params["model"] = types.ModelSonarPro when the key is not in the map
ClientDefaultModel(params) ==
    IF "model" \in DOMAIN params THEN params
    ELSE [k \in DOMAIN params \cup {"model"} |->
            IF k = "model" THEN Str(ModelSonarPro) ELSE params[k]]

\* Client.AcademicSearch, FinancialSearch, FilteredSearch up to callAPI: the
\* validation error, or the request sent
ClientSearch(params, cfg) ==
    IF ~TypeAssert(params, "query", "string").ok \/ TypeAssert(params, "query", "string").v = ""
    THEN [err |-> <<"query parameter is required">>, sent |-> <<>>]
    ELSE [err |-> NoErr,
          sent |-> <<ClientBuildRequest(TypeAssert(params, "query", "string").v,
                                        ClientDefaultModel(params), cfg.DefaultModel)>>]

ClientMethods == {"AcademicSearch", "FinancialSearch", "FilteredSearch"}

ClientArgOptions ==
    [query : {Missing, Str(""), Str("earnings")},
     model : {Missing, Str(""), Num(7), Str(ModelSonar), Str("sonar-reasoning")},
     ticker : {Missing, Str("AAPL")}]

ClientArgs ==
    {[k \in {key \in DOMAIN o : o[key] # Missing} |-> o[k]] : o \in ClientArgOptions}

CallClientSearch ==
    /\ call = NoCall
    /\ \E method \in ClientMethods, params \in ClientArgs :
          Calls("ClientSearch", [method |-> method, params |-> params],
                ClientSearch(params, config))

NextClient == CallClientSearch

SpecClient == InitFn /\ [][NextClient]_vars

----------------------------------------------------------------------------
\* Properties

\* the characters an identifier is made of, written out
UpperAlnum ==
    {"A","B","C","D","E","F","G","H","I","J","K","L","M","N","O","P","Q","R","S","T",
     "U","V","W","X","Y","Z","0","1","2","3","4","5","6","7","8","9"}

\* the entry directory of id holds both files
Complete(id) ==
    /\ rootExists
    /\ id \in DOMAIN dirs
    /\ dirs[id].meta.exists
    /\ dirs[id].result.exists

\* the call goroutine p runs has finished and still holds its result
Done(p, ops) == pc[p] = "done" /\ op[p] \in ops

\* the finished search or direct save of goroutine p saved an entry
Saved(p) ==
    /\ Done(p, SearchOps \cup {"SaveResult"})
    /\ loc[p].saveErr = NoErr
    /\ loc[p].uniqueID # <<>>

\* what GetPreviousResult returns for id in the current state
Get(id) == GetPreviousResult(config.ResultsRootFolder, rootExists, dirs, id)

\* C1: no two saves ever write into the same identifier directory, i.e. every
\* identifier directory is the MkdirAll target of at most one SaveResult call,
\* also when saves run concurrently
C1_OneSavePerDirectory == \A id \in RandomIDs : mkdirs[id] <= 1

\* C2: an identifier a caller holds, from the Result ID line of a finished
\* search or from an item of a finished list_previous, names an entry whose
\* metadata and result files are both written, so that GetPreviousResult finds
\* the result
C2_ObservedIdsComplete ==
    \A p \in Procs :
        /\ Saved(p) /\ op[p] \in SearchOps =>
              Complete(loc[p].uniqueID) /\ Get(loc[p].uniqueID).err = NoErr
        /\ Done(p, {"ListPrevious"}) /\ ret[p].err = NoErr =>
              \A i \in 1..Len(ret[p].out) :
                  /\ Complete(ret[p].out[i].unique_id)
                  /\ Get(ret[p].out[i].unique_id).err = NoErr

\* C4: once a save has returned identifier id for text t, GetPreviousResult(id)
\* returns exactly t and every listing reports id with the query, timestamp and
\* search type of that save, whatever other calls do afterwards
C4_ReturnedEntriesNeverChange ==
    \A r \in returned :
        /\ Get(r.id).err = NoErr
        /\ Get(r.id).out = r.result
        /\ \A l \in ListPreviousQueries(config.ResultsRootFolder, rootExists, dirs) :
              QueryListItem(r.query, r.id, r.timestamp, r.searchType) \in Range(l.items)

\* C3: round trip.  When a save has returned identifier id for a non-empty
\* text t, GetPreviousResult(id) returns exactly t without error, both when
\* evaluated right after the save and when a later get_previous_result call
\* asks for id
C3_RoundTrip ==
    \A p \in Procs :
        /\ Saved(p) =>
              /\ Get(loc[p].uniqueID).err = NoErr
              /\ Get(loc[p].uniqueID).out = loc[p].result
        /\ Done(p, {"GetPreviousResult"}) =>
              \A r \in returned : r.id = arg[p] => ret[p] = [out |-> r.result, err |-> NoErr]

\* a get_previous_result call has returned the non-empty text of an earlier save
C3_Witness ==
    \E p \in Procs : \E r \in returned :
        /\ Done(p, {"GetPreviousResult"})
        /\ r.id = arg[p]
        /\ r.result # <<>>
        /\ ret[p].out = r.result

\* C5: with saves run one after the other, the identifier a save chooses names
\* no directory already in the cache, every directory is the target of at most
\* one save, and no identifier is returned by two saves, also for saves of
\* identical queries
C5_SequentialSavesFresh ==
    /\ \A p \in Procs : pc[p] = "MkdirAll" => loc[p].uniqueID \notin DOMAIN dirs
    /\ \A id \in DOMAIN mkdirs : mkdirs[id] < 2
    /\ \A r1, r2 \in returned : r1.id = r2.id => r1 = r2

\* two saves of the same query and text have returned two identifiers
C5_Witness ==
    \E r1, r2 \in returned :
        /\ r1.id # r2.id
        /\ r1.query = r2.query /\ r1.searchType = r2.searchType /\ r1.result = r2.result

\* every directory of the cache is the entry of a save that returned
NoDebris == DOMAIN dirs = {r.id : r \in returned}

\* the saves that returned have pairwise distinct timestamps
DistinctTimes == \A r1, r2 \in returned : r1 # r2 => r1.timestamp # r2.timestamp

\* C6: after N successful saves into an initially empty cache (and no save that
\* left a directory behind), with pairwise distinct timestamps, a list call
\* returns exactly N items, one per saved identifier with the query, timestamp
\* and search type of its save, in strictly descending timestamp order
C6_ListAfterSaves ==
    \A p \in Procs :
        Done(p, {"ListPrevious"}) /\ IsCachingEnabled(config.ResultsRootFolder)
            /\ NoDebris /\ DistinctTimes =>
        LET items == loc[p].inner.items
        IN /\ Len(items) = Cardinality(returned)
           /\ {items[i].UniqueID : i \in 1..Len(items)} = {r.id : r \in returned}
           /\ \A i \in 1..Len(items) : \E r \in returned :
                  items[i] = [Query |-> r.query, UniqueID |-> r.id,
                              DateTime |-> r.timestamp, SearchType |-> r.searchType]
           /\ \A i, j \in 1..Len(items) : i < j => items[i].DateTime > items[j].DateTime
           /\ Len(items) > 0 =>
                 /\ ret[p].err = NoErr
                 /\ Len(ret[p].out) = Len(items)
                 /\ \A i \in 1..Len(items) :
                        /\ ret[p].out[i].unique_id = items[i].UniqueID
                        /\ ret[p].out[i].datetime = items[i].DateTime

\* a list call has returned two items after two saves with distinct timestamps
C6_Witness ==
    \E p \in Procs :
        /\ Done(p, {"ListPrevious"})
        /\ NoDebris /\ DistinctTimes
        /\ Cardinality(returned) = 2
        /\ Len(ret[p].out) = 2

\* the shape of an identifier: exactly 10 characters, each of A-Z or 0-9
WellFormed(id) == Len(id) = 10 /\ \A i \in 1..Len(id) : id[i] \in UpperAlnum

\* C7: with caching enabled, GetPreviousResult rejects an identifier that is not
\* exactly 10 characters of A-Z, 0-9 with the invalid-format error before it
\* touches the storage, and answers a well-formed identifier that has no
\* stored result with the not-found error, which differs from the
\* invalid-format error
C7_ValidatedBeforeStorage ==
    \A p \in Procs :
        Done(p, {"GetPreviousResult"}) /\ IsCachingEnabled(config.ResultsRootFolder) =>
        LET r == loc[p].inner
            stored == rootExists /\ arg[p] \in DOMAIN dirs /\ dirs[arg[p]].result.exists
        IN /\ ~WellFormed(arg[p]) =>
                 /\ r.err = <<"invalid unique ID format: must be ", "10", " alphanumeric characters">>
                 /\ ~r.touched
                 /\ ret[p].out = <<>> /\ ret[p].err # NoErr
           /\ WellFormed(arg[p]) /\ ~stored =>
                 /\ r.err = ErrNotFound(arg[p])
                 /\ r.err # ErrInvalidID
                 /\ ret[p].out = <<>> /\ ret[p].err # NoErr
           /\ WellFormed(arg[p]) /\ stored => ret[p].err = NoErr

\* a get_previous_result call was given ten bytes that are not all of
\* A-Z, 0-9 and has returned the invalid-format error
C7_Witness ==
    \E p \in Procs :
        /\ Done(p, {"GetPreviousResult"})
        /\ IsCachingEnabled(config.ResultsRootFolder)
        /\ ByteLen(arg[p]) = 10 /\ ~WellFormed(arg[p])
        /\ loc[p].inner.err = ErrInvalidID

\* C8: a GenerateUniqueID call draws at most 100 candidates and rejects only
\* candidates that name existing directories; it returns either a well-formed
\* identifier that named no existing directory, or, after 100 rejected
\* candidates, an error and no identifier
C8_GenerateUniqueIDBounded ==
    gen.draws > 0 =>
        /\ gen.draws <= 100
        /\ gen.rejected \subseteq DOMAIN dirs
        /\ gen.err = NoErr =>
              /\ WellFormed(gen.id)
              /\ gen.id \notin DOMAIN dirs
              /\ gen.draws > 1 => gen.rejected # {}
        /\ gen.err # NoErr =>
              /\ gen.id = <<>>
              /\ gen.draws = 100
              /\ gen.rejected # {}

\* a GenerateUniqueID call has given up after 100 candidates
C8_Witness == gen.draws = 100 /\ gen.err # NoErr /\ gen.id = <<>>

\* the text ends with a Result ID line: the marker and a non-empty identifier
EndsWithResultIDLine(text) ==
    /\ Len(text) >= 2
    /\ text[Len(text) - 1] = "\n\n**Result ID:** "
    /\ text[Len(text)] # ""

\* C9: a search whose remote call succeeded returns, without error, the
\* formatted text of the reply; with caching enabled the text ends with the
\* Result ID line of the saved entry if and only if the save succeeded, and a
\* failed save changes nothing else in the reply
C9_SearchSurvivesCacheFailure ==
    \A p \in Procs :
        Done(p, SearchOps) /\ loc[p].apiErr = NoErr =>
            /\ ret[p].err = NoErr
            /\ \E t \in Transports :
                  callAPI(t).err = NoErr /\ loc[p].result = formatResponse(callAPI(t).resp)
            /\ EndsWithResultIDLine(ret[p].out) <=> Saved(p)
            /\ Saved(p) =>
                  /\ Complete(loc[p].uniqueID)
                  /\ ret[p].out = loc[p].result
                                   \o <<"\n\n**Result ID:** ", String(loc[p].uniqueID)>>
            /\ ~Saved(p) => ret[p].out = loc[p].result

\* a search has returned its text although the save failed
C9_Witness ==
    \E p \in Procs :
        /\ Done(p, SearchOps)
        /\ IsCachingEnabled(config.ResultsRootFolder)
        /\ loc[p].apiErr = NoErr
        /\ loc[p].saveErr # NoErr
        /\ ret[p] = [out |-> loc[p].result, err |-> NoErr]

\* C10: a search whose remote call failed returns an error and has written
\* nothing to the cache; a search changes the cache only after its remote call
\* succeeded
C10_FailedSearchLeavesCache ==
    \A p \in Procs :
        /\ Done(p, SearchOps) /\ loc[p].apiErr # NoErr =>
              /\ ret[p].err # NoErr
              /\ ret[p].out = <<>>
              /\ ~wrote[p]
        /\ op[p] \in SearchOps /\ wrote[p] => pc[p] # "callAPI" /\ loc[p].apiErr = NoErr

\* a search has failed remotely while the cache holds an entry
C10_Witness ==
    \E p \in Procs :
        /\ Done(p, SearchOps)
        /\ loc[p].apiErr # NoErr
        /\ ret[p].err # NoErr
        /\ returned # {}

\* a direct call of HandleSearch has been made
HandleSearchCall == call.fn = "HandleSearch"

\* the caller gave the argument with the type the handler expects
Given(args, key, type) == key \in DOMAIN args /\ args[key].type = type

\* the value of a key on the wire; a key left out of the body reads as zero
Wire(body, key, zero) == IF key \in DOMAIN body THEN body[key] ELSE zero

\* the query is missing, empty or whitespace only
BlankQuery(args) == ~Given(args, "query", "string") \/ args["query"].v \in {"", "   "}

\* C11: a search tool call whose query is missing, empty or whitespace only
\* returns a validation error and sends no request
C11_BlankQueryRejected ==
    HandleSearchCall /\ BlankQuery(call.in.args) =>
        call.out.err # NoErr /\ call.out.sent = <<>>

RecencyValues == {"hour", "day", "week", "month", "year"}

\* C12: a search tool call whose search_recency_filter is not one of hour, day,
\* week, month, year returns a validation error and sends no request, and no
\* request carries such a value
C12_InvalidRecencyRejected ==
    HandleSearchCall =>
        /\ \A i \in 1..Len(call.out.sent) :
              Wire(call.out.sent[i], "search_recency_filter", "") \in RecencyValues \cup {""}
        /\ Given(call.in.args, "search_recency_filter", "string")
              /\ call.in.args["search_recency_filter"].v \notin RecencyValues \cup {""} =>
                call.out.err # NoErr /\ call.out.sent = <<>>

C15_ModelSelection ==
    HandleSearchCall /\ call.out.err = NoErr =>
        /\ Len(call.out.sent) = 1
        /\ call.out.sent[1]["model"] =
              IF Given(call.in.args, "model", "string") /\ call.in.args["model"].v # ""
              THEN call.in.args["model"].v
              ELSE IF call.in.tool = "perplexity_search" THEN config.DefaultModel
              ELSE "sonar-pro"

\* an academic search without a model went out with sonar-pro although another
\* default model is configured
C15_Witness ==
    /\ HandleSearchCall
    /\ call.in.tool = "perplexity_academic_search"
    /\ "model" \notin DOMAIN call.in.args
    /\ config.DefaultModel = "sonar-reasoning"
    /\ Len(call.out.sent) = 1
    /\ call.out.sent[1]["model"] = "sonar-pro"

\* the value an optional field must have on the wire: the caller's when
\* given, else the configured default
Expected(args, key, type, default) == IF Given(args, key, type) THEN args[key].v ELSE default

\* C16: in the request of every search tool call, max_tokens, temperature,
\* return_images and return_related_questions hold the caller's value when
\* given and the configured default when absent
C16_AbsentTakesDefault ==
    HandleSearchCall /\ call.out.err = NoErr =>
        LET body == call.out.sent[1]
            args == call.in.args
        IN /\ Wire(body, "max_tokens", 0) = Expected(args, "max_tokens", "float64", config.MaxTokens)
           /\ Wire(body, "temperature", 0) =
                 Expected(args, "temperature", "float64", config.Temperature)
           /\ Wire(body, "return_images", FALSE) =
                 Expected(args, "return_images", "bool", config.ReturnImages)
           /\ Wire(body, "return_related_questions", FALSE) =
                 Expected(args, "return_related_questions", "bool", config.ReturnRelated)

\* the reply is a non-success status with a JSON error envelope
JSONError(t) == t.doErr = NoErr /\ t.status # 200 /\ t.json

\* C17: for a non-success reply with a JSON error envelope, callAPI returns an
\* error whose text contains the upstream error message
C17_ErrorCarriesUpstreamMessage ==
    call.fn = "callAPI" /\ JSONError(call.in) =>
        call.out.err # NoErr /\ contains(call.out.err, call.in.body.Message)

SourceURLsHeader == "\n\n## Source URLs\n"
DetailedSourcesHeader == "\n\n## Detailed Sources\n"
RelatedQuestionsHeader == "\n\n## Related Questions\n"

\* the positions of a chunk in a text
At(text, chunk) == {i \in 1..Len(text) : text[i] = chunk}

C13_OneRequestThenOneWrite ==
    \A p \in Procs :
        op[p] \in SearchOps =>
            /\ log[p] \in {<<"request">>, <<"request", "error">>, <<"request", "reply">>,
                           <<"request", "reply", "SaveResult">>}
            /\ pc[p] = "callAPI" <=> log[p] = <<"request">>
            /\ pc[p] \in {"SaveResult", "MkdirAll", "WriteMetadata", "WriteResult"} =>
                  log[p] = <<"request", "reply", "SaveResult">>
            /\ wrote[p] => log[p] = <<"request", "reply", "SaveResult">>
            /\ log[p] = <<"request", "error">> =>
                  pc[p] = "done" /\ ~wrote[p] /\ ret[p].err # NoErr

\* a search has returned after one request, its reply and one cache write
C13_Witness ==
    \E p \in Procs :
        /\ op[p] \in SearchOps
        /\ pc[p] = "done"
        /\ wrote[p]
        /\ log[p] = <<"request", "reply", "SaveResult">>
        /\ ret[p].err = NoErr

C20_DisabledSaveIsNoOp ==
    config.ResultsRootFolder = "" =>
        /\ dirs = NoDirs
        /\ \A id \in RandomIDs : mkdirs[id] = 0
        /\ \A p \in Procs :
              /\ ~wrote[p]
              /\ loc[p].uniqueID = <<>>
              /\ pc[p] \notin {"MkdirAll", "WriteMetadata", "WriteResult"}
              /\ Done(p, {"SaveResult"}) => ret[p] = [out |-> <<>>, err |-> NoErr]
              /\ Done(p, SearchOps) /\ ret[p].err = NoErr =>
                    /\ ret[p].out = loc[p].result
                    /\ ~EndsWithResultIDLine(ret[p].out)

\* a direct SaveResult has returned with caching disabled
C20_Witness ==
    /\ config.ResultsRootFolder = ""
    /\ \E p \in Procs :
          /\ Done(p, {"SaveResult"})
          /\ ret[p] = [out |-> <<>>, err |-> NoErr]
          /\ loc[p].result # <<>>

\* C21: ListPreviousQueries returns the empty list and no error when the root
\* folder is unset or does not exist, and makes no filesystem call that
\* creates anything
C21_MissingRootListsNothing ==
    call.fn = "ListPreviousQueries" /\ (call.in.root = "" \/ ~call.in.disk.exists) =>
        /\ call.out.results = {[items |-> <<>>, err |-> NoErr]}
        /\ \A i \in 1..Len(call.out.fs) : call.out.fs[i] \in {"Stat", "ReadDir", "ReadFile"}

\* ListPreviousQueries was called with a root folder set that does not exist
C21_Witness ==
    /\ call.fn = "ListPreviousQueries"
    /\ call.in.root = "results"
    /\ ~call.in.disk.exists
    /\ call.out.results = {[items |-> <<>>, err |-> NoErr]}
    /\ call.out.fs = <<"Stat">>

\* the names of the well-formed entries of a disk
GoodEntries(disk) ==
    {n \in DOMAIN disk.children :
        IsDir(disk.children[n]) /\ \E t \in Times : disk.children[n].meta = GoodMeta(t)}

\* the children of a disk that ListPreviousQueries has to skip
BadEntries(disk) == DOMAIN disk.children \ GoodEntries(disk)

\* C22: on a readable root folder ListPreviousQueries returns no error
\* whatever bad children there are, and its list holds exactly the well-formed
\* entries, each once with its own timestamp, in descending timestamp order
C22_BadEntriesSkipped ==
    call.fn = "ListPreviousQueries" /\ call.in.root # ""
        /\ call.in.disk.exists /\ call.in.disk.readable =>
        \A r \in call.out.results :
            /\ r.err = NoErr
            /\ {r.items[i].UniqueID : i \in 1..Len(r.items)} = GoodEntries(call.in.disk)
            /\ Len(r.items) = Cardinality(GoodEntries(call.in.disk))
            /\ \A i \in 1..Len(r.items) :
                  call.in.disk.children[r.items[i].UniqueID].meta = GoodMeta(r.items[i].DateTime)
            /\ \A i, j \in 1..Len(r.items) : i < j => r.items[i].DateTime >= r.items[j].DateTime

\* a root with a file, a directory with a torn metadata file and two
\* well-formed entries of different times was listed, the newer entry first
C22_Witness ==
    /\ call.fn = "ListPreviousQueries"
    /\ call.in.root # ""
    /\ Cardinality(GoodEntries(call.in.disk)) = 2
    /\ \E n \in BadEntries(call.in.disk) :
          IsDir(call.in.disk.children[n]) /\ call.in.disk.children[n].meta = File(<<TornLine>>)
    /\ \E r \in call.out.results :
          r.err = NoErr /\ Len(r.items) = 2 /\ r.items[1].DateTime > r.items[2].DateTime

\* the string the caller gave for a key, empty when the key is absent or is
\* not a string
Field(args, key) == IF Given(args, key, "string") THEN args[key].v ELSE ""

\* a field of a context prefix: its label and value, after a ", " when a
\* field stands before it; nothing when the field is empty
Part(label, value, before) ==
    IF value = "" THEN "" ELSE (IF before # "" THEN ", " ELSE "") \o label \o value

\* a context prefix in brackets, nothing when it has no field
Bracket(opening, fields) == IF fields = "" THEN "" ELSE opening \o fields \o "] "

\* C23: the financial search sends as content the query, prefixed by
\* "[...] " holding the non-empty fields among Ticker, Company, Report Type in
\* that order joined by ", ", and the raw query when none is given
C23_FinancialContent ==
    HandleSearchCall /\ call.in.tool = "perplexity_financial_search" =>
        LET args == call.in.args
            t == Part("Ticker: ", Field(args, "ticker"), "")
            c == Part("Company: ", Field(args, "company_name"), t)
            r == Part("Report Type: ", Field(args, "report_type"), t \o c)
        IN /\ Len(call.out.sent) = 1
           /\ call.out.sent[1]["messages"] = Bracket("[", t \o c \o r) \o args["query"].v

\* ticker AAPL with query earnings was sent as "[Ticker: AAPL] earnings"
C23_Witness ==
    /\ HandleSearchCall
    /\ call.in.tool = "perplexity_financial_search"
    /\ call.in.args = [query |-> Str("earnings"), ticker |-> Str("AAPL")]
    /\ call.out.sent[1]["messages"] = "[Ticker: AAPL] earnings"

\* the text of custom filter pairs in a given order
RECURSIVE PairsText(_)
PairsText(pairs) ==
    IF Len(pairs) = 0 THEN ""
    ELSE PairsText(SubSeq(pairs, 1, Len(pairs) - 1))
         \o (IF Len(pairs) > 1 THEN ", " ELSE "")
         \o pairs[Len(pairs)][1] \o ": " \o pairs[Len(pairs)][2]

\* the orders in which the pairs of a map can be written, each pair once
Orders(pairs) ==
    {o \in [1..Len(pairs) -> Range(pairs)] : \A i, j \in 1..Len(pairs) : i # j => o[i] # o[j]}

\* the custom filter pairs of a call
CustomPairs(args) == IF Given(args, "custom_filters", "map") THEN args["custom_filters"].v ELSE <<>>

\* C24: the filtered search sends as content the query, prefixed by
\* "[Filters: ...] " holding the present fields among Content Type, File Type,
\* Language, Country in that order when there is one, and in front of that
\* "[Custom Filters: ...] " holding every custom pair once when there is one
C24_FilteredContent ==
    HandleSearchCall /\ call.in.tool = "perplexity_filtered_search" =>
        LET args == call.in.args
            ct == Part("Content Type: ", Field(args, "content_type"), "")
            ft == Part("File Type: ", Field(args, "file_type"), ct)
            la == Part("Language: ", Field(args, "language"), ct \o ft)
            co == Part("Country: ", Field(args, "country"), ct \o ft \o la)
        IN /\ Len(call.out.sent) = 1
           /\ \E o \in Orders(CustomPairs(args)) :
                 call.out.sent[1]["messages"] =
                     Bracket("[Custom Filters: ", PairsText(o))
                     \o Bracket("[Filters: ", ct \o ft \o la \o co)
                     \o args["query"].v

\* a filtered search with two custom filters, a file type and a country was
\* sent with both prefixes
C24_Witness ==
    /\ HandleSearchCall
    /\ call.in.tool = "perplexity_filtered_search"
    /\ call.in.args = [query |-> Str("earnings"), file_type |-> Str("pdf"), country |-> Str("FR"),
                       custom_filters |-> Map(<< <<"year", "2024">>, <<"site", "sec.gov">> >>)]
    /\ call.out.sent[1]["messages"] =
          "[Custom Filters: year: 2024, site: sec.gov] [Filters: File Type: pdf, Country: FR] earnings"

\* C25: the filtered search sends the explicit location when one is given,
\* else the country when one is given, else no location
C25_LocationFromCountry ==
    HandleSearchCall /\ call.in.tool = "perplexity_filtered_search" =>
        LET args == call.in.args
        IN /\ Len(call.out.sent) = 1
           /\ Field(args, "location") # "" =>
                 Wire(call.out.sent[1], "location", "") = Field(args, "location")
           /\ Field(args, "location") = "" /\ Field(args, "country") # "" =>
                 Wire(call.out.sent[1], "location", "") = Field(args, "country")
           /\ Field(args, "location") = "" /\ Field(args, "country") = "" =>
                 "location" \notin DOMAIN call.out.sent[1]

\* a filtered search with country FR and location Paris was sent with
\* location Paris and the country in the text prefix only
C25_Witness ==
    /\ HandleSearchCall
    /\ call.in.tool = "perplexity_filtered_search"
    /\ call.in.args = [query |-> Str("earnings"), country |-> Str("FR"), location |-> Str("Paris")]
    /\ call.out.sent[1]["location"] = "Paris"
    /\ call.out.sent[1]["messages"] = "[Filters: Country: FR] earnings"

\* C26: the map-based AcademicSearch, FinancialSearch and FilteredSearch send
\* a non-empty model string unchanged and sonar-pro in every other case: the
\* model key absent, empty, or not a string
C26_ClientDefaultsToSonarPro ==
    call.fn = "ClientSearch" /\ call.out.err = NoErr =>
        /\ Len(call.out.sent) = 1
        /\ call.out.sent[1].Model =
              IF Field(call.in.params, "model") # "" THEN Field(call.in.params, "model")
              ELSE ModelSonarPro

\* the identifiers the saves have returned
ReturnedIDs == {r.id : r \in returned}

\* an entry directory left behind by a save that failed: no save returned
\* its name and no running save is writing into it
Debris(id) ==
    /\ id \in DOMAIN dirs
    /\ id \notin ReturnedIDs
    /\ \A p \in Procs : pc[p] \in {"WriteMetadata", "WriteResult"} => loc[p].uniqueID # id

\* the number of files in an entry directory
FileCount(id) ==
    (IF dirs[id].meta.exists THEN 1 ELSE 0) + (IF dirs[id].result.exists THEN 1 ELSE 0)

\* C27: a save that failed has returned an error and no identifier; the
\* directory it leaves behind holds zero or one file, is never named again by
\* GenerateUniqueID, and the entries of the successful saves are still listed
\* and returned as saved
C27_DebrisIsHarmless ==
    /\ \A p \in Procs :
          Done(p, {"SaveResult"}) /\ loc[p].saveErr # NoErr =>
              ret[p].out = <<>> /\ ret[p].err # NoErr
    /\ \A id \in DOMAIN dirs :
          Debris(id) =>
              /\ FileCount(id) <= 1
              /\ \A o \in GenerateUniqueID(config.ResultsRootFolder, rootExists, dirs) : o.id # id
    /\ \A r \in returned :
          /\ Get(r.id).out = r.result
          /\ \A l \in ListPreviousQueries(config.ResultsRootFolder, rootExists, dirs) :
                l.err = NoErr
                /\ QueryListItem(r.query, r.id, r.timestamp, r.searchType) \in Range(l.items)

\* no call is running
Quiescent == \A p \in Procs : pc[p] \in {"idle", "done"}

\* the identifiers of a listing
ListedIDs(l) == {l.items[i].UniqueID : i \in 1..Len(l.items)}

\* C28: after any sequence of saves that met no I/O failure, every listing
\* reports exactly the identifiers the saves returned, and every listed
\* identifier has the valid format and is found by GetPreviousResult
C28_ListGetConsistent ==
    faults = MaxFaults /\ Quiescent =>
        \A l \in ListPreviousQueries(config.ResultsRootFolder, rootExists, dirs) :
            /\ l.err = NoErr
            /\ ListedIDs(l) = ReturnedIDs
            /\ \A id \in ListedIDs(l) :
                  /\ ByteLen(id) = idLength
                  /\ isValidID(id)
                  /\ Get(id).err = NoErr

\* two saves have succeeded and both entries are listed
C28_Witness ==
    /\ faults = MaxFaults
    /\ Quiescent
    /\ Cardinality(ReturnedIDs) = 2
    /\ \E l \in ListPreviousQueries(config.ResultsRootFolder, rootExists, dirs) :
          Len(l.items) = 2 /\ ListedIDs(l) = ReturnedIDs

\* the metadata stored for an entry
Metadata(id) == yamlUnmarshal(dirs[id].meta.data).metadata

\* C29: when the text a search returned ends with the Result ID line of id,
\* GetPreviousResult(id) returns that text without its last two chunks (the
\* blank line with the marker, and the identifier), and the model in the
\* metadata of id is the model of the request the search sent
C29_StoredTextIsResponse ==
    \A p \in Procs :
        Done(p, SearchOps) /\ EndsWithResultIDLine(ret[p].out) =>
            LET id == loc[p].uniqueID
                text == ret[p].out
            IN /\ text[Len(text)] = String(id)
               /\ Get(id).err = NoErr
               /\ Get(id).out = SubSeq(text, 1, Len(text) - 2)
               /\ Len(loc[p].request) = 1
               /\ Metadata(id).Model = loc[p].request[1]["model"]

\* an academic search without a model has returned a text with a Result ID
\* line; sonar-pro was sent and recorded although sonar is the default
C29_Witness ==
    \E p \in Procs :
        /\ Done(p, {"AcademicSearch"})
        /\ EndsWithResultIDLine(ret[p].out)
        /\ config.DefaultModel = ModelSonar
        /\ loc[p].request[1]["model"] = ModelSonarPro
        /\ Metadata(loc[p].uniqueID).Model = ModelSonarPro
        /\ Get(loc[p].uniqueID).out = SubSeq(ret[p].out, 1, Len(ret[p].out) - 2)

\* C30: with caching enabled, a finished list_previous has succeeded only
\* with at least one entry in its array; when the cache lists no entry it has
\* returned the no-previous-queries error, which is not the
\* caching-is-not-enabled error
C30_EmptyCacheIsAnError ==
    config.ResultsRootFolder # "" =>
        \A p \in Procs :
            Done(p, {"ListPrevious"}) =>
                /\ ret[p].err = NoErr =>
                      /\ Len(ret[p].out) >= 1
                      /\ ret[p].out = jsonMarshalIndent(loc[p].inner.items)
                /\ loc[p].inner.err = NoErr /\ Len(loc[p].inner.items) = 0 =>
                      /\ ret[p].err = ErrNoQueries
                      /\ ret[p].err \notin {NoErr, ErrNotEnabled}

\* list_previous has returned the no-previous-queries error for a root folder
\* that does not exist
C30_Witness ==
    /\ config.ResultsRootFolder # ""
    /\ ~rootExists
    /\ \E p \in Procs :
          /\ Done(p, {"ListPrevious"})
          /\ ret[p].err = ErrNoQueries

====
